---- MODULE Spec2Model ----
(***************************************************************************)
(* aws_sqs_consumer.consumer.Consumer: construction (__init__), the        *)
(* polling loop (start), its dispatch to the single or the batch handler,  *)
(* deletion after success, the exception callbacks, and the lifecycle      *)
(* calls start_consumer / stop, run by one application thread, by the      *)
(* background threads it creates, by a handler, and by the exit hook.      *)
(***************************************************************************)
EXTENDS Integers, Sequences, FiniteSets, TLC

\* Bounds of the model.
MaxWorkers == 1      \* background threads alive at the same time
MaxBatch == 2        \* largest configured batch_size explored
MaxMsgs == 2         \* messages the remote queue can hand out

\* Program constants: the accepted range of batch_size.
MinBatchSize == 1
MaxBatchSize == 10

\* The application (caller) thread; background threads are 1..MaxWorkers.
Main == 0
Workers == 1..MaxWorkers
Threads == {Main} \cup Workers

VARIABLES
    batch_size,     \* self.batch_size
    daemon,         \* self.daemon
    threaded,       \* self.threaded
    _running,       \* self._running
    _sqs_thread,    \* self._sqs_thread: {} is None, {w} the Thread object w
    pc,             \* the position of every thread
    messages,       \* start()'s local `messages`, per thread
    exception,      \* per thread: the exception in flight, or the one that
                    \* left start() ("None" if none)
    calls,          \* per thread: the calls made in its current iteration
    stops,          \* stop() calls since the last start call: 0, 1, 2 (or more)
    stop_result,    \* how the most recent stop() call ended
    args,           \* the arguments of the Consumer(...) call
    constructed,    \* the outcome of that call: "pending" before it is made,
                    \* "Consumer", or the exception __init__ raised
    attrs,          \* the attributes __init__ has assigned to self
    registered,     \* atexit.register(self.stop) has been executed
    exited          \* the process has terminated: the exit hook has run

vars == <<batch_size, daemon, threaded, _running, _sqs_thread, pc, messages,
          exception, calls, stops, stop_result, args, constructed, attrs,
          registered, exited>>

\* What construction fixes.
config == <<batch_size, daemon, threaded, args, constructed, attrs, registered>>

-----------------------------------------------------------------------------
\* Data

BatchSizes == {b \in MinBatchSize..MaxBatchSize : b <= MaxBatch}

MsgIds == 1..MaxMsgs

\* The receipt handle the transport issues for message i (never equal to an id).
ReceiptHandleOf(i) == i + MaxMsgs

\* One entry of response["Messages"].
RawMessage(i) ==
    [MessageId |-> i, ReceiptHandle |-> ReceiptHandleOf(i), Body |-> i]

\* Message.parse(message_dict).
Parse(raw) ==
    [MessageId |-> raw.MessageId, ReceiptHandle |-> raw.ReceiptHandle,
     Body |-> raw.Body]

\* The responses receive_message may return for MaxNumberOfMessages = n: the
\* first k messages of the queue, for every k up to n and up to what the
\* queue holds, k = 0 included.
Responses(n) ==
    { [i \in 1..k |-> RawMessage(i)] :
        k \in {j \in 0..MaxMsgs : j <= n} }

\* self._sqs_client_params["MaxNumberOfMessages"].
_sqs_client_params == batch_size

\* A branch taken on the number of messages received.
UseSingleByCount(msgs) == Len(msgs) = 1

\* if self.batch_size == 1: the branch of start() between _process_message
\* and _process_message_batch, taken on the configuration alone.
UseSingle(msgs) == batch_size = 1

\* A loop that acknowledges whatever the handler did.
AfterHandlerAlwaysDelete(raised) == "delete"

\* try: handler; delete / except: where control goes after the handler call.
AfterHandler(raised) == IF raised THEN "except" ELSE "delete"

\* A delete that names the message by its id.
DeleteArgById(message) == message.MessageId

\* The ReceiptHandle argument of delete_message.
DeleteArg(message) == message.ReceiptHandle

\* The Entries argument of delete_message_batch.
Entries(msgs) ==
    [i \in 1..Len(msgs) |->
        [Id |-> msgs[i].MessageId, ReceiptHandle |-> msgs[i].ReceiptHandle]]

\* One recorded call: the operation, its argument, the exception handed to
\* it (callbacks only) and whether the call raised.
Call(op, arg, exc, raised) ==
    [op |-> op, arg |-> arg, exc |-> exc, raised |-> raised]

\* Positions inside start().
LoopPcs == {"start", "while", "receive", "dispatch", "handler_join", "delete",
            "except"}

\* A thread that has left start(): where it goes when the loop returns ...
Returned(t) == IF t = Main THEN "idle" ELSE "finished"
\* ... and when an exception propagates out of start().
Propagated(t) == IF t = Main THEN "idle" ELSE "died"

Terminated(w) == pc[w] \in {"finished", "died"}

\* A slot in which threading.Thread(...) can create a new thread.
Free(w) == pc[w] = "unborn" \/ Terminated(w)

\* A wrapper that lets the transport's own error through.
DeleteErrorUnwrapped == "ClientError"

\* except Exception: raise SQSException(...) in both delete wrappers.
DeleteError == "SQSException"

\* An except clause that also catches what the callback raises.
AfterCallbackSwallow(raised) == "None"

\* An except clause that raises again once the callback has returned.
AfterCallbackReraise(raised) == IF raised THEN "CallbackError" ELSE "Reraised"

\* The exception in flight once an exception callback has been called: its
\* own, if it raised; the one it was handed is handled otherwise.
AfterCallback(raised) == IF raised THEN "CallbackError" ELSE "None"

\* A loop that has receive_message inside the try statement.
AfterReceiveErrorCaught(t) == "except"

\* receive_message raised: no try statement encloses the call, the exception
\* leaves start().
AfterReceiveError(t) == Propagated(t)

\* A loop that leaves on an empty response.
AfterEmptyBreak(t) == Returned(t)

\* An empty response: _polling_wait(), then continue.
AfterEmpty(t) == "while"

\* A batch callback that is handed the first message only.
BatchCallbackArgFirst(msgs) == <<msgs[1]>>

\* The messages handed to handle_batch_processing_exception.
BatchCallbackArg(msgs) == msgs

\* A stop() that never waits for the thread.
NeverJoin == FALSE

\* if not self.daemon: stop() joins the thread.
MustJoin == ~daemon

-----------------------------------------------------------------------------
\* Construction

\* The attributes assigned before the batch_size check, before the region
\* check, and by a complete __init__.
AttrsBeforeBatchCheck == {"queue_url", "attribute_names", "message_attribute_names"}
AttrsBeforeRegionCheck ==
    AttrsBeforeBatchCheck \cup
        {"batch_size", "wait_time_seconds", "visibility_timeout_seconds",
         "polling_wait_time_ms", "daemon", "thread_name_prefix", "_sqs_thread",
         "threaded"}
AllAttrs == AttrsBeforeRegionCheck \cup {"_sqs_client", "_running"}

\* The batch_size arguments explored: the accepted range and its two
\* neighbours.
BatchSizeArgs == (MinBatchSize - 1)..(MaxBatchSize + 1)

\* A check that leaves out both ends of the range.
ValidBatchSizeExclusive(n) == MinBatchSize < n /\ n < MaxBatchSize

\* 1 <= batch_size <= 10
ValidBatchSize(n) == MinBatchSize <= n /\ n <= MaxBatchSize

\* No thread has done anything yet.
NoActivity ==
    /\ pc = [t \in Threads |-> IF t = Main THEN "idle" ELSE "unborn"]
    /\ messages = [t \in Threads |-> <<>>]
    /\ exception = [t \in Threads |-> "None"]
    /\ calls = [t \in Threads |-> <<>>]
    /\ stops = 0
    /\ stop_result = "none"
    /\ exited = FALSE

\* The application is about to call Consumer(...). args.region tells whether
\* the region argument or AWS_DEFAULT_REGION is there. No attribute exists:
\* the variables of the fields hold the defaults until attrs names them.
InitCall ==
    /\ args \in [batch_size : BatchSizeArgs, daemon : BOOLEAN,
                  threaded : BOOLEAN, region : BOOLEAN]
    /\ constructed = "pending"
    /\ attrs = {}
    /\ registered = FALSE
    /\ batch_size = MinBatchSize
    /\ daemon = TRUE
    /\ threaded = TRUE
    /\ _running = FALSE
    /\ _sqs_thread = {}
    /\ NoActivity

\* Consumer.__init__
__init__ ==
    /\ constructed = "pending"
    /\ IF ~ValidBatchSize(args.batch_size)
       THEN /\ constructed' = "ValueError"
            /\ attrs' = AttrsBeforeBatchCheck
            /\ UNCHANGED <<batch_size, daemon, threaded, registered>>
       ELSE /\ batch_size' = args.batch_size
            /\ daemon' = args.daemon
            /\ threaded' = args.threaded
            /\ IF args.region
               THEN /\ constructed' = "Consumer"
                    /\ attrs' = AllAttrs
                    /\ registered' = TRUE
               ELSE /\ constructed' = "Exception"
                    /\ attrs' = AttrsBeforeRegionCheck
                    /\ UNCHANGED registered
    /\ _sqs_thread' = {}
    /\ _running' = FALSE
    /\ UNCHANGED <<args, pc, messages, exception, calls, stops, stop_result,
                   exited>>

\* Construction alone, for every argument.
SpecConstruct == InitCall /\ [][__init__]_vars

\* A constructed Consumer, of a batch size within the bound explored.
Init ==
    /\ batch_size \in BatchSizes
    /\ daemon \in BOOLEAN
    /\ threaded \in BOOLEAN
    /\ args = [batch_size |-> batch_size, daemon |-> daemon,
               threaded |-> threaded, region |-> TRUE]
    /\ constructed = "Consumer"
    /\ attrs = AllAttrs
    /\ registered = TRUE
    /\ _running = FALSE
    /\ _sqs_thread = {}
    /\ NoActivity

\* The values the fields and the threads' positions take.
TypeOK ==
    /\ batch_size \in BatchSizes
    /\ daemon \in BOOLEAN
    /\ threaded \in BOOLEAN
    /\ _running \in BOOLEAN
    /\ _sqs_thread \in {{}} \cup {{w} : w \in Workers}
    /\ pc[Main] \in LoopPcs \cup {"idle", "join"}
    /\ \A w \in Workers : pc[w] \in LoopPcs \cup {"unborn", "finished", "died"}
    /\ \A t \in Threads :
        /\ Len(messages[t]) <= batch_size
        /\ exception[t] \in {"None", "HandlerError", DeleteError,
                             "CallbackError", "ReceiveError"}
    /\ stops \in 0..2
    /\ stop_result \in {"none", "returned", "joining", "AttributeError"}
    /\ constructed = "Consumer"
    /\ attrs = AllAttrs
    /\ registered \in BOOLEAN
    /\ exited \in BOOLEAN

-----------------------------------------------------------------------------
\* Lifecycle calls of the application thread

\* The thread is executing start().
InLoop(t) == pc[t] \in LoopPcs

\* Thread t enters start(): nothing is left of an earlier start() of t.
Enter(t) ==
    /\ pc' = [pc EXCEPT ![t] = "start"]
    /\ messages' = [messages EXCEPT ![t] = <<>>]
    /\ exception' = [exception EXCEPT ![t] = "None"]
    /\ calls' = [calls EXCEPT ![t] = <<>>]

\* start_consumer(): run start() on the caller, or on a new thread. Creating
\* the Thread, assigning it to _sqs_thread and starting it are one step: only
\* the caller reads _sqs_thread. Thread.start() returns with the new thread
\* started, at the top of start(), not yet past self._running = True.
start_consumer ==
    /\ pc[Main] = "idle"
    /\ ~exited
    /\ IF ~threaded
       THEN /\ Enter(Main)
            /\ UNCHANGED _sqs_thread
       ELSE /\ \E w \in Workers :
                /\ Free(w)
                /\ \A v \in Workers : v < w => ~Free(v)
                /\ _sqs_thread' = {w}
                /\ Enter(w)
    /\ stops' = 0
    /\ stop_result' = "none"
    /\ UNCHANGED <<config, exited, _running>>

\* start() called directly by the application.
start ==
    /\ pc[Main] = "idle"
    /\ ~exited
    /\ Enter(Main)
    /\ stops' = 0
    /\ stop_result' = "none"
    /\ UNCHANGED <<config, exited, _running, _sqs_thread>>

\* stop(), called on the application thread: clear the flag; a non-daemon
\* consumer then joins its thread.
StopCall ==
    /\ pc[Main] = "idle"
    /\ _running' = FALSE
    /\ stops' = IF stops < 2 THEN stops + 1 ELSE stops
    /\ IF ~MustJoin
       THEN /\ stop_result' = "returned"
            /\ UNCHANGED pc
       ELSE IF _sqs_thread = {}
            THEN /\ stop_result' = "AttributeError"
                 /\ UNCHANGED pc
            ELSE /\ stop_result' = "joining"
                 /\ pc' = [pc EXCEPT ![Main] = "join"]
    /\ UNCHANGED <<config, _sqs_thread, messages, exception, calls>>

\* stop() called by the application.
stop ==
    /\ ~exited
    /\ StopCall
    /\ UNCHANGED exited

\* Normal process termination: the application thread has come to its end,
\* the interpreter has waited for the threads that are not daemon threads,
\* and the functions registered with atexit run: self.stop.
atexit ==
    /\ registered
    /\ ~exited
    /\ daemon \/ \A w \in Workers : ~InLoop(w)
    /\ StopCall
    /\ exited' = TRUE

\* self._sqs_thread.join() returns once that thread has terminated.
join ==
    /\ pc[Main] = "join"
    /\ \A w \in _sqs_thread : Terminated(w)
    /\ pc' = [pc EXCEPT ![Main] = "idle"]
    /\ stop_result' = "returned"
    /\ UNCHANGED <<config, exited, _running, _sqs_thread, messages, exception, calls,
                   stops>>

-----------------------------------------------------------------------------
\* start(): the loop, one step per call that can fail or that touches the
\* flag. _polling_wait only sleeps: it is taken together with the statement
\* before it.

\* A loop that does not wait between polls.
SkipWait(log) == log

\* self._polling_wait(), recorded in the calls of the iteration.
_polling_wait(log) == Append(log, Call("_polling_wait", <<>>, "None", FALSE))

\* A start() that leaves the flag as it finds it.
RunningKept == _running

\* The value start() gives the flag, whatever it was.
RunningAtStart == TRUE

\* self._running = True
SetRunning(t) ==
    /\ pc[t] = "start"
    /\ _running' = RunningAtStart
    /\ pc' = [pc EXCEPT ![t] = "while"]
    /\ UNCHANGED <<config, exited, _sqs_thread, messages, exception, calls, stops,
                   stop_result>>

\* while self._running
LoopCheck(t) ==
    /\ pc[t] = "while"
    /\ pc' = [pc EXCEPT ![t] = IF _running THEN "receive" ELSE Returned(t)]
    /\ messages' = [messages EXCEPT ![t] = <<>>]
    /\ calls' = [calls EXCEPT ![t] = <<>>]
    /\ UNCHANGED <<config, exited, _running, _sqs_thread, exception, stops,
                   stop_result>>

\* response = receive_message(...); an empty response: wait and continue;
\* otherwise Message.parse of each message.
Receive(t) ==
    /\ pc[t] = "receive"
    /\ \/ \E response \in Responses(_sqs_client_params) :
            IF response = <<>>
            THEN /\ calls' = [calls EXCEPT ![t] = _polling_wait(
                        <<Call("receive_message", response, "None", FALSE)>>)]
                 /\ pc' = [pc EXCEPT ![t] = AfterEmpty(t)]
                 /\ UNCHANGED <<messages, exception>>
            ELSE /\ calls' = [calls EXCEPT ![t] =
                        <<Call("receive_message", response, "None", FALSE)>>]
                 /\ pc' = [pc EXCEPT ![t] = "dispatch"]
                 /\ messages' = [messages EXCEPT
                       ![t] = [i \in 1..Len(response) |-> Parse(response[i])]]
                 /\ UNCHANGED exception
       \/ \* receive_message raises: nothing catches it
          /\ pc' = [pc EXCEPT ![t] = AfterReceiveError(t)]
          /\ exception' = [exception EXCEPT ![t] = "ReceiveError"]
          /\ calls' = [calls EXCEPT ![t] = <<>>]
          /\ UNCHANGED messages
    /\ UNCHANGED <<config, exited, _running, _sqs_thread, stops, stop_result>>

\* The handler call `call` is over: it either returned or raised.
AfterHandlerCall(t, log, call) ==
    /\ calls' = [calls EXCEPT ![t] = Append(log, call)]
    /\ pc' = [pc EXCEPT ![t] = AfterHandler(call.raised)]
    /\ exception' = [exception EXCEPT
                        ![t] = IF call.raised THEN "HandlerError" ELSE "None"]

\* What self.stop() does when thread t calls it from inside a handler, after
\* clearing the flag: it returns (daemon), or it evaluates
\* self._sqs_thread.join(): AttributeError on None, RuntimeError ("cannot
\* join current thread") on t's own thread, a wait on another thread.
StopInHandler(t) ==
    IF ~MustJoin THEN "None"
    ELSE IF _sqs_thread = {} THEN "AttributeError"
    ELSE IF _sqs_thread = {t} THEN "RuntimeError"
    ELSE "join"

\* The handler `op`, called with `arg` on thread t: it returns, or raises, or
\* it calls self.stop() and then returns, unless stop() raised, which the
\* handler lets through.
Handler(t, op, arg) ==
    \/ /\ \E raised \in BOOLEAN :
            AfterHandlerCall(t, calls[t], Call(op, arg, "None", raised))
       /\ UNCHANGED _running
    \/ /\ _running' = FALSE
       /\ IF StopInHandler(t) = "join"
          THEN /\ pc' = [pc EXCEPT ![t] = "handler_join"]
               /\ UNCHANGED <<calls, exception>>
          ELSE LET failed == StopInHandler(t) # "None" IN
               AfterHandlerCall(t,
                   Append(calls[t], Call("stop", <<>>, StopInHandler(t), failed)),
                   Call(op, arg, "None", failed))

\* _process_message: self.handle_message(message)
HandleMessage(t) ==
    /\ pc[t] = "dispatch"
    /\ UseSingle(messages[t])
    /\ Handler(t, "handle_message", <<messages[t][1]>>)
    /\ UNCHANGED <<config, exited, _sqs_thread, messages, stops, stop_result>>

\* _process_message_batch: self.handle_message_batch(messages)
HandleMessageBatch(t) ==
    /\ pc[t] = "dispatch"
    /\ ~UseSingle(messages[t])
    /\ Handler(t, "handle_message_batch", messages[t])
    /\ UNCHANGED <<config, exited, _sqs_thread, messages, stops, stop_result>>

\* The join of a stop() called from inside a handler returns once the thread
\* _sqs_thread refers to has terminated; stop() and the handler then return.
JoinInHandler(t) ==
    /\ pc[t] = "handler_join"
    /\ \A w \in _sqs_thread : Terminated(w)
    /\ AfterHandlerCall(t,
           Append(calls[t], Call("stop", <<>>, "None", FALSE)),
           IF UseSingle(messages[t])
           THEN Call("handle_message", <<messages[t][1]>>, "None", FALSE)
           ELSE Call("handle_message_batch", messages[t], "None", FALSE))
    /\ UNCHANGED <<config, exited, _running, _sqs_thread, messages, stops, stop_result>>

\* The rest of the try statement once the delete call `call` has been made:
\* a failure is raised again as SQSException and caught by the except
\* clause; a success runs the finally clause and ends the iteration.
AfterDelete(t, call) ==
    IF call.raised
    THEN /\ calls' = [calls EXCEPT ![t] = Append(@, call)]
         /\ pc' = [pc EXCEPT ![t] = "except"]
         /\ exception' = [exception EXCEPT ![t] = DeleteError]
    ELSE /\ calls' = [calls EXCEPT ![t] = _polling_wait(Append(@, call))]
         /\ pc' = [pc EXCEPT ![t] = "while"]
         /\ exception' = [exception EXCEPT ![t] = "None"]

\* _delete_message: delete_message(ReceiptHandle=message.ReceiptHandle)
DeleteMessage(t) ==
    /\ pc[t] = "delete"
    /\ UseSingle(messages[t])
    /\ \E raised \in BOOLEAN :
        AfterDelete(t, Call("delete_message", <<DeleteArg(messages[t][1])>>,
                            "None", raised))
    /\ UNCHANGED <<config, exited, _running, _sqs_thread, messages, stops, stop_result>>

\* _delete_message_batch: delete_message_batch(Entries=[...])
DeleteMessageBatch(t) ==
    /\ pc[t] = "delete"
    /\ ~UseSingle(messages[t])
    /\ \E raised \in BOOLEAN :
        AfterDelete(t, Call("delete_message_batch", Entries(messages[t]),
                            "None", raised))
    /\ UNCHANGED <<config, exited, _running, _sqs_thread, messages, stops, stop_result>>

\* The rest of the try statement once the exception callback call `call` has
\* been made: the finally clause runs in either case; an exception the
\* callback raised is not caught and leaves start().
AfterExcept(t, call) ==
    LET inflight == AfterCallback(call.raised) IN
    /\ exception' = [exception EXCEPT ![t] = inflight]
    /\ IF inflight = "None"
       THEN /\ calls' = [calls EXCEPT ![t] = _polling_wait(Append(@, call))]
            /\ pc' = [pc EXCEPT ![t] = "while"]
            /\ UNCHANGED messages
       ELSE /\ calls' = [calls EXCEPT ![t] = <<>>]
            /\ pc' = [pc EXCEPT ![t] = Propagated(t)]
            /\ messages' = [messages EXCEPT ![t] = <<>>]

\* except Exception: self.handle_processing_exception(message, exception)
HandleProcessingException(t) ==
    /\ pc[t] = "except"
    /\ UseSingle(messages[t])
    /\ \E raised \in BOOLEAN :
        AfterExcept(t, Call("handle_processing_exception",
                            <<messages[t][1]>>, exception[t], raised))
    /\ UNCHANGED <<config, exited, _running, _sqs_thread, stops, stop_result>>

\* except Exception: self.handle_batch_processing_exception(messages, exception)
HandleBatchProcessingException(t) ==
    /\ pc[t] = "except"
    /\ ~UseSingle(messages[t])
    /\ \E raised \in BOOLEAN :
        AfterExcept(t, Call("handle_batch_processing_exception",
                            BatchCallbackArg(messages[t]), exception[t], raised))
    /\ UNCHANGED <<config, exited, _running, _sqs_thread, stops, stop_result>>

-----------------------------------------------------------------------------

Next ==
    \/ start_consumer
    \/ start
    \/ stop
    \/ atexit
    \/ join
    \/ \E t \in Threads : SetRunning(t)
    \/ \E t \in Threads : LoopCheck(t)
    \/ \E t \in Threads : Receive(t)
    \/ \E t \in Threads : HandleMessage(t)
    \/ \E t \in Threads : HandleMessageBatch(t)
    \/ \E t \in Threads : JoinInHandler(t)
    \/ \E t \in Threads : DeleteMessage(t)
    \/ \E t \in Threads : DeleteMessageBatch(t)
    \/ \E t \in Threads : HandleProcessingException(t)
    \/ \E t \in Threads : HandleBatchProcessingException(t)

Spec == Init /\ [][Next]_vars

-----------------------------------------------------------------------------
\* Reading the record of a thread's current iteration

Idx(t) == 1..Len(calls[t])

\* The positions in calls[t] of the calls of operation op.
CallsOf(t, op) == {i \in Idx(t) : calls[t][i].op = op}

Handlers == {"handle_message", "handle_message_batch"}
Deletes == {"delete_message", "delete_message_batch"}
Callbacks == {"handle_processing_exception",
              "handle_batch_processing_exception"}

\* The handler call of the iteration raised / returned.
HandlerRaised(t) ==
    \E i \in Idx(t) : calls[t][i].op \in Handlers /\ calls[t][i].raised
HandlerReturned(t) ==
    \E i \in Idx(t) : calls[t][i].op \in Handlers /\ ~calls[t][i].raised

\* The thread has ended the iteration its calls record.
IterationEnded(t) == pc[t] = "while"

\* The thread takes a step of its own.
Moves(t) == pc'[t] # pc[t]

-----------------------------------------------------------------------------
\* C1: process, then acknowledge. In the record of every iteration, on the
\* single and on the batch path, a delete (or delete-batch) call comes only
\* after the handler call of that iteration, that handler call returned
\* without raising, and the delete is for what the handler was given; an
\* iteration whose handler raised holds no delete call.
C1_ProcessThenAcknowledge ==
    \A t \in Threads : \A j \in Idx(t) :
        calls[t][j].op \in Deletes =>
            /\ \E i \in 1..(j - 1) :
                /\ calls[t][i].op \in Handlers
                /\ ~calls[t][i].raised
                /\ (calls[t][j].op = "delete_message") =>
                      /\ calls[t][i].op = "handle_message"
                      /\ calls[t][j].arg = <<calls[t][i].arg[1].ReceiptHandle>>
                /\ (calls[t][j].op = "delete_message_batch") =>
                      /\ calls[t][i].op = "handle_message_batch"
                      /\ calls[t][j].arg = Entries(calls[t][i].arg)
            /\ \A i \in Idx(t) :
                calls[t][i].op \in Handlers => i < j /\ ~calls[t][i].raised

\* A batch handler returned and delete_message_batch was then called.
C1_Witness ==
    \E t \in Threads : \E j \in Idx(t) :
        /\ calls[t][j].op = "delete_message_batch"
        /\ HandlerReturned(t)

-----------------------------------------------------------------------------
\* The callback call of the iteration, if it returned: the failure is handled.
Handled(t) ==
    \E i \in Idx(t) : calls[t][i].op \in Callbacks /\ ~calls[t][i].raised

\* After a failure the loop goes on: unless the callback itself raises, the
\* thread's step from the except clause ends the iteration at the loop top
\* and, if the flag is still set at the loop-top check, the step after it
\* goes to another receive.
Continues(t) ==
    /\ (pc[t] = "except" /\ Moves(t)) =>
          (pc'[t] = "while" \/ exception'[t] = "CallbackError")
    /\ (pc[t] = "while" /\ _running /\ Moves(t)) => pc'[t] = "receive"

\* handle_message raised in the iteration: its record holds no delete call,
\* at most one handle_processing_exception call and, once control is past
\* the except clause, exactly one, made with the message the handler was
\* given and with the handler's error.
C2_Record(t) ==
    \A i \in CallsOf(t, "handle_message") :
        calls[t][i].raised =>
            /\ \A j \in Idx(t) : calls[t][j].op \notin Deletes
            /\ Cardinality(CallsOf(t, "handle_processing_exception")) <= 1
            /\ IterationEnded(t) =>
                  Cardinality(CallsOf(t, "handle_processing_exception")) = 1
            /\ \A j \in CallsOf(t, "handle_processing_exception") :
                  /\ j = i + 1
                  /\ calls[t][j].arg = calls[t][i].arg
                  /\ calls[t][j].exc = "HandlerError"

\* C2: if handle_message raises, delete is not invoked and
\* handle_processing_exception is invoked exactly once, with the original
\* message and the raised error; the callback having returned, the loop
\* continues: the thread waits, checks the flag and, if it is still set,
\* issues another receive.
C2_HandlerFailureHandled ==
    /\ [](\A t \in Threads : C2_Record(t))
    /\ [][\A t \in Threads :
            (HandlerRaised(t) /\ CallsOf(t, "handle_message") # {})
                => Continues(t)]_vars

\* handle_message raised, the callback returned, and the thread is back at
\* the loop top with the flag set.
C2_Witness ==
    \E t \in Threads :
        /\ \E i \in CallsOf(t, "handle_message") : calls[t][i].raised
        /\ Handled(t)
        /\ pc[t] = "while"
        /\ _running

-----------------------------------------------------------------------------
\* delete_message raised in the iteration, after handle_message returned: the
\* delete was called once, and handle_processing_exception at most once and,
\* once control is past the except clause, exactly once, with the message
\* that was handled and an SQSException.
C3_Record(t) ==
    \A i \in CallsOf(t, "delete_message") :
        calls[t][i].raised =>
            /\ Cardinality(CallsOf(t, "delete_message")) = 1
            /\ \E h \in CallsOf(t, "handle_message") :
                  /\ h < i
                  /\ ~calls[t][h].raised
                  /\ \A j \in CallsOf(t, "handle_processing_exception") :
                        calls[t][j].arg = calls[t][h].arg
            /\ Cardinality(CallsOf(t, "handle_processing_exception")) <= 1
            /\ IterationEnded(t) =>
                  Cardinality(CallsOf(t, "handle_processing_exception")) = 1
            /\ \A j \in CallsOf(t, "handle_processing_exception") :
                  /\ j = i + 1
                  /\ calls[t][j].exc = "SQSException"

\* C3: if delete_message raises after a successful handle_message,
\* handle_processing_exception is invoked exactly once with the original
\* message and an SQSException, the delete is not called again in that
\* iteration and, the callback having returned, the loop continues.
C3_DeleteFailureHandled ==
    /\ [](\A t \in Threads : C3_Record(t))
    /\ [][\A t \in Threads :
            (\E i \in CallsOf(t, "delete_message") : calls[t][i].raised)
                => Continues(t)]_vars

\* delete_message raised, the callback returned, and the thread is back at
\* the loop top with the flag set.
C3_Witness ==
    \E t \in Threads :
        /\ \E i \in CallsOf(t, "delete_message") : calls[t][i].raised
        /\ Handled(t)
        /\ pc[t] = "while"
        /\ _running

-----------------------------------------------------------------------------
\* The response of the iteration's receive_message call held n messages.
Received(t, n) ==
    \E r \in CallsOf(t, "receive_message") : Len(calls[t][r].arg) = n

\* The raw messages of the iteration's response.
Response(t) == calls[t][CHOOSE r \in CallsOf(t, "receive_message") : TRUE].arg

\* Control is past the handler call / past the delete call of the iteration.
PastHandler(t) == pc[t] \in {"delete", "except", "while"}
PastDelete(t) == pc[t] \in {"except", "while"}

\* C9: batch size 1 and a receive returning one message. handle_message is
\* invoked exactly once, with that message; once it has returned, delete_message
\* is invoked exactly once, with that message's receipt handle; neither
\* handle_message_batch nor delete_message_batch (nor the batch callback) is
\* ever invoked.
C9_SinglePath ==
    \A t \in Threads :
        (batch_size = 1 /\ Received(t, 1)) =>
            /\ Cardinality(CallsOf(t, "handle_message")) <= 1
            /\ PastHandler(t) => Cardinality(CallsOf(t, "handle_message")) = 1
            /\ \A h \in CallsOf(t, "handle_message") :
                  /\ Len(calls[t][h].arg) = 1
                  /\ calls[t][h].arg[1].MessageId = Response(t)[1].MessageId
            /\ Cardinality(CallsOf(t, "delete_message")) <= 1
            /\ (HandlerReturned(t) /\ PastDelete(t)) =>
                  Cardinality(CallsOf(t, "delete_message")) = 1
            /\ \A d \in CallsOf(t, "delete_message") :
                  calls[t][d].arg = <<Response(t)[1].ReceiptHandle>>
            /\ CallsOf(t, "handle_message_batch") = {}
            /\ CallsOf(t, "delete_message_batch") = {}
            /\ CallsOf(t, "handle_batch_processing_exception") = {}

\* Batch size 1: handle_message returned and delete_message was called for
\* the one message received.
C9_Witness ==
    \E t \in Threads :
        /\ batch_size = 1
        /\ Received(t, 1)
        /\ HandlerReturned(t)
        /\ \E d \in CallsOf(t, "delete_message") : ~calls[t][d].raised

\* C10: batch size N > 1 and a receive returning M messages, 1 <= M <= N.
\* handle_message_batch is invoked exactly once, with all M messages, and
\* handle_message never; once it has returned, delete_message_batch is
\* invoked exactly once, with exactly the M (Id, ReceiptHandle) pairs of the
\* response; delete_message is never invoked. This holds for M = 1 as well:
\* the branch depends on the configured batch size alone.
C10_BatchPath ==
    \A t \in Threads :
        (batch_size > 1 /\ CallsOf(t, "receive_message") # {}
                        /\ ~Received(t, 0)) =>
            /\ Len(Response(t)) <= batch_size
            /\ Cardinality(CallsOf(t, "handle_message_batch")) <= 1
            /\ PastHandler(t) =>
                  Cardinality(CallsOf(t, "handle_message_batch")) = 1
            /\ \A h \in CallsOf(t, "handle_message_batch") :
                  /\ Len(calls[t][h].arg) = Len(Response(t))
                  /\ \A k \in 1..Len(Response(t)) :
                        calls[t][h].arg[k].MessageId = Response(t)[k].MessageId
            /\ Cardinality(CallsOf(t, "delete_message_batch")) <= 1
            /\ (HandlerReturned(t) /\ PastDelete(t)) =>
                  Cardinality(CallsOf(t, "delete_message_batch")) = 1
            /\ \A d \in CallsOf(t, "delete_message_batch") :
                  calls[t][d].arg =
                      [k \in 1..Len(Response(t)) |->
                          [Id |-> Response(t)[k].MessageId,
                           ReceiptHandle |-> Response(t)[k].ReceiptHandle]]
            /\ CallsOf(t, "handle_message") = {}
            /\ CallsOf(t, "delete_message") = {}
            /\ CallsOf(t, "handle_processing_exception") = {}

\* Batch size above 1 and a response of a single message: the batch handler
\* returned and delete_message_batch was called.
C10_Witness ==
    \E t \in Threads :
        /\ batch_size > 1
        /\ Received(t, 1)
        /\ HandlerReturned(t)
        /\ \E d \in CallsOf(t, "delete_message_batch") : ~calls[t][d].raised

-----------------------------------------------------------------------------
\* Lifecycle

\* stop() has been invoked since the last start_consumer() or start() call.
StopInvoked == stops > 0

\* No background thread has ever been created.
NoWorkerEver == \A w \in Workers : pc[w] = "unborn"

\* C4: cooperative stop is effective. Once stop() has been invoked after
\* start_consumer() returned, and no start call has followed, every loop-top
\* check a worker makes finds the flag cleared and leaves the loop, so that
\* the worker issues no receive after its next loop-top check.
C4_StopEffective ==
    [][\A w \in Workers :
          (StopInvoked /\ pc[w] = "while" /\ Moves(w)) => pc'[w] = "finished"]_vars

\* C5: stop() on a Consumer for which no background thread was ever created
\* completes without raising and leaves the flag cleared, whatever the
\* configuration.
C5_StopWithoutWorker ==
    (StopInvoked /\ NoWorkerEver) => (stop_result = "returned" /\ ~_running)

\* C6: at most one thread executes the loop of the Consumer at any time.
C6_AtMostOneLoop == Cardinality({t \in Threads : InLoop(t)}) <= 1

\* C7: for a non-daemon Consumer whose background thread was started, when
\* stop() has returned the thread it waited for, the Consumer's background
\* thread, has left start() and terminated: it makes no further receive,
\* handler, delete or callback call.
C7_StopJoinsWorker ==
    (~daemon /\ _sqs_thread # {} /\ StopInvoked /\ stop_result = "returned") =>
        \A w \in _sqs_thread : Terminated(w) /\ ~InLoop(w)

\* A non-daemon Consumer with a background thread whose stop() has returned.
C7_Witness ==
    /\ ~daemon
    /\ _sqs_thread # {}
    /\ StopInvoked
    /\ stop_result = "returned"
    /\ \E w \in _sqs_thread : pc[w] = "finished"

\* C8: the second of two stop() calls in succession ends without an error,
\* in every lifecycle state and configuration.
C8_StopTwice == stops >= 2 => stop_result # "AttributeError"


-----------------------------------------------------------------------------
\* A call on the batch path raised in the iteration: a raising
\* handle_message_batch is followed by no delete, a raising
\* delete_message_batch hands on an SQSException; in both cases
\* handle_batch_processing_exception is called at most once and, once control
\* is past the except clause, exactly once, right after the failing call, with
\* the whole list the handler was given; handle_processing_exception is not
\* called.
C11_Record(t) ==
    \A i \in CallsOf(t, "handle_message_batch")
                \cup CallsOf(t, "delete_message_batch") :
        calls[t][i].raised =>
            /\ (calls[t][i].op = "handle_message_batch") =>
                  \A j \in Idx(t) : calls[t][j].op \notin Deletes
            /\ Cardinality(CallsOf(t, "delete_message_batch")) <= 1
            /\ Cardinality(CallsOf(t, "handle_batch_processing_exception")) <= 1
            /\ IterationEnded(t) =>
                  Cardinality(CallsOf(t, "handle_batch_processing_exception")) = 1
            /\ \A j \in CallsOf(t, "handle_batch_processing_exception") :
                  /\ j = i + 1
                  /\ \E h \in CallsOf(t, "handle_message_batch") :
                        calls[t][j].arg = calls[t][h].arg
                  /\ calls[t][j].arg = [k \in 1..Len(Response(t)) |->
                                            Parse(Response(t)[k])]
                  /\ calls[t][j].exc =
                        IF calls[t][i].op = "handle_message_batch"
                        THEN "HandlerError" ELSE "SQSException"
            /\ CallsOf(t, "handle_processing_exception") = {}

\* C11: on the batch path a failure is handled as a whole. If
\* handle_message_batch raises, delete-batch is not attempted; if delete-batch
\* raises, the failure is an SQSException; in both cases
\* handle_batch_processing_exception is invoked exactly once with the whole
\* message list and the error, handle_processing_exception is never invoked
\* and, the callback having returned, the loop continues.
C11_BatchFailureHandled ==
    /\ [](\A t \in Threads : C11_Record(t))
    /\ [][\A t \in Threads :
            (\E i \in Idx(t) :
                /\ calls[t][i].op \in {"handle_message_batch",
                                       "delete_message_batch"}
                /\ calls[t][i].raised)
                => Continues(t)]_vars

\* delete_message_batch raised for a list of two messages, the batch callback
\* returned, and the thread is back at the loop top with the flag set.
C11_Witness ==
    \E t \in Threads :
        /\ \E i \in CallsOf(t, "delete_message_batch") : calls[t][i].raised
        /\ \E j \in CallsOf(t, "handle_batch_processing_exception") :
              /\ Len(calls[t][j].arg) = 2
              /\ ~calls[t][j].raised
        /\ pc[t] = "while"
        /\ _running

-----------------------------------------------------------------------------
\* C12: an empty response. The iteration is the receive and the inter-poll
\* wait and nothing else: no handler, no delete, no exception callback; the
\* thread is then at the loop top and, the flag being set at its check, its
\* next step goes to one more receive.
C12_EmptyResponse ==
    /\ [](\A t \in Threads :
            Received(t, 0) =>
                /\ pc[t] = "while"
                /\ calls[t] = <<Call("receive_message", <<>>, "None", FALSE),
                                Call("_polling_wait", <<>>, "None", FALSE)>>)
    /\ [][\A t \in Threads :
            (Received(t, 0) /\ _running /\ Moves(t)) =>
                /\ pc'[t] = "receive"
                /\ calls'[t] = <<>>]_vars

\* A thread has ended an iteration whose response was empty; the flag is set.
C12_Witness ==
    \E t \in Threads : Received(t, 0) /\ pc[t] = "while" /\ _running

-----------------------------------------------------------------------------
\* C13: an exception callback that raises is not caught. The step in which
\* the callback raises takes the thread straight out of start() with the
\* callback's exception: the record of an iteration that goes on never holds
\* a callback call that raised, nor more than one callback call, nor a delete
\* after a callback call; a thread that holds the callback's exception is out
\* of the loop and makes no further receive.
C13_CallbackRaises ==
    /\ [](\A t \in Threads :
            /\ \A i \in Idx(t) :
                  calls[t][i].op \in Callbacks =>
                      /\ ~calls[t][i].raised
                      /\ \A j \in Idx(t) :
                            j > i => calls[t][j].op = "_polling_wait"
            /\ exception[t] = "CallbackError" =>
                  ~InLoop(t) /\ calls[t] = <<>>)
    /\ [][\A t \in Threads :
            (pc[t] = "except" /\ Moves(t)) =>
                \/ pc'[t] = "while" /\ Handled(t)'
                \/ /\ pc'[t] = Propagated(t)
                   /\ exception'[t] = "CallbackError"]_vars

\* The callback of a thread that runs start() inline raised: start() has
\* returned to the application with the callback's exception.
C13_Witness ==
    /\ pc[Main] = "idle"
    /\ exception[Main] = "CallbackError"

-----------------------------------------------------------------------------
\* C14: a receive failure is not wrapped and goes to no callback. The step in
\* which receive_message yields no response takes the thread out of start()
\* with the receive error itself; a thread that holds the receive error is
\* out of the loop, and no handler, delete, callback or wait was called in
\* that iteration.
C14_ReceiveFailure ==
    /\ [](\A t \in Threads :
            exception[t] = "ReceiveError" => ~InLoop(t) /\ calls[t] = <<>>)
    /\ [][\A t \in Threads :
            (pc[t] = "receive" /\ Moves(t) /\ calls'[t] = <<>>) =>
                /\ pc'[t] = Propagated(t)
                /\ exception'[t] = "ReceiveError"]_vars

\* receive_message raised on a worker thread: the thread has died with the
\* receive error.
C14_Witness ==
    \E w \in Workers : pc[w] = "died" /\ exception[w] = "ReceiveError"

-----------------------------------------------------------------------------
\* C18: one inter-poll wait per iteration that obtained a response. The
\* record of an iteration starts with its one receive; while the response is
\* being dispatched it holds no wait; when the thread is back at the loop
\* top it holds exactly one, as its last call.
C18_OneWaitPerIteration ==
    \A t \in Threads :
        /\ Cardinality(CallsOf(t, "receive_message")) <= 1
        /\ calls[t] # <<>> => calls[t][1].op = "receive_message"
        /\ pc[t] \in {"dispatch", "delete", "except"} =>
              CallsOf(t, "_polling_wait") = {}
        /\ (pc[t] = "while" /\ calls[t] # <<>>) =>
              CallsOf(t, "_polling_wait") = {Len(calls[t])}

\* An iteration whose delete failed and whose callback returned has ended:
\* its record has five calls, the wait being the last.
C18_Witness ==
    \E t \in Threads :
        /\ pc[t] = "while"
        /\ Len(calls[t]) = 5
        /\ calls[t][5].op = "_polling_wait"

-----------------------------------------------------------------------------
\* C15: Stopped is re-enterable. Whatever went before, a thread that enters
\* start() holds nothing of an earlier loop, its first step sets the flag and
\* takes it to the loop top, and a loop-top check that finds the flag set
\* goes to a receive: the loop started after stop() and the exit of an
\* earlier loop runs as the first loop of a new Consumer does.
C15_Reenterable ==
    /\ [](\A t \in Threads :
            pc[t] = "start" =>
                calls[t] = <<>> /\ messages[t] = <<>> /\ exception[t] = "None")
    /\ [][\A t \in Threads :
            /\ (pc[t] = "start" /\ Moves(t)) =>
                  _running' /\ pc'[t] = "while" /\ calls'[t] = <<>>
            /\ (pc[t] = "while" /\ _running /\ Moves(t)) =>
                  pc'[t] = "receive"]_vars

\* A background loop has exited after stop(); start() was called again and
\* its loop has received a message, handled it and deleted it, the flag
\* being set.
C15_Witness ==
    /\ \E w \in Workers : pc[w] = "finished"
    /\ pc[Main] = "while"
    /\ _running
    /\ HandlerReturned(Main)
    /\ \E j \in Idx(Main) : calls[Main][j].op \in Deletes /\ ~calls[Main][j].raised

-----------------------------------------------------------------------------
\* C19: the running flag reflects the loop. Whenever no thread is executing
\* start() (none was started, or every loop has exited after stop() or was
\* ended by an exception from receive or from a callback), the flag is false.
C19_RunningReflectsLoop == (\A t \in Threads : ~InLoop(t)) => ~_running

-----------------------------------------------------------------------------
\* C20: a handler may stop its own consumer. In every configuration, when the
\* handler of an iteration has called stop(), that call raised nothing, the
\* handler returned, no exception callback is called unless the delete
\* failed, and the iteration does not end without a delete call.
C20_HandlerStops ==
    \A t \in Threads : \A i \in CallsOf(t, "stop") :
        /\ ~calls[t][i].raised
        /\ HandlerReturned(t)
        /\ \A j \in Idx(t) :
              calls[t][j].op \in Callbacks =>
                  \E d \in Idx(t) : calls[t][d].op \in Deletes /\ calls[t][d].raised
        /\ IterationEnded(t) => \E d \in Idx(t) : calls[t][d].op \in Deletes

-----------------------------------------------------------------------------
\* C16: process-exit safety. Once the exit hook has run stop(), in every
\* configuration, a background thread that comes to its loop-top check leaves
\* the loop there.
C16_ExitStopsLoop ==
    [][\A w \in Workers :
          (exited /\ pc[w] = "while" /\ Moves(w)) => pc'[w] = "finished"]_vars

-----------------------------------------------------------------------------
\* C17: construction validates the batch size. Given a region, every batch
\* size from 1 to 10 yields a Consumer, with its flag false, no thread, and
\* stop() registered for process exit; every batch size outside that range
\* yields a ValueError, raised before the running flag exists and before
\* anything is registered; and a Consumer is never made of a batch size
\* outside the range.
C17_ConstructionValidates ==
    constructed # "pending" =>
        /\ (args.batch_size \in MinBatchSize..MaxBatchSize /\ args.region) =>
              /\ constructed = "Consumer"
              /\ batch_size = args.batch_size
              /\ "_running" \in attrs /\ ~_running
              /\ _sqs_thread = {}
              /\ registered
        /\ args.batch_size \notin MinBatchSize..MaxBatchSize =>
              /\ constructed = "ValueError"
              /\ "_running" \notin attrs
              /\ ~registered
        /\ constructed = "Consumer" =>
              args.batch_size \in MinBatchSize..MaxBatchSize

\* Consumer(..., batch_size=11) has raised ValueError.
C17_Witness ==
    /\ args.batch_size = MaxBatchSize + 1
    /\ constructed = "ValueError"

=============================================================================
